---- MODULE Spec2Model ----
(***************************************************************************)
(* Model of the <session-timeout> web component                            *)
(* (public/session-timeout.js): the pure duration calculator               *)
(* getDurationData and the SessionTimeout element that owns the end time,  *)
(* the re-scheduling timer and the keepalive bookkeeping.                  *)
(*                                                                         *)
(* Time is in milliseconds.  The wall clock `now` starts at Epoch, a       *)
(* scaled-down stand-in for Date.now() (about 1.7e12 in reality) that is   *)
(* still larger than every keepalive period the model configures, as the   *)
(* real clock is.                                                          *)
(***************************************************************************)
EXTENDS Integers, Sequences, FiniteSets, TLC

\* ---------------------------------------------------------------- bounds
\* Clock reading when the page is loaded.
Epoch == 100000000
\* How far past Epoch the model lets the clock run.
Horizon == 45000
\* Number of host-driven operations (property writes, connects, disconnects,
\* window events) in a run.
MaxOps == 3
\* Number of timer callbacks in a run.
MaxTicks == 4

\* How far past Epoch the clock runs when the timer chain is followed to its
\* end (a little over 9 hours).
LiveHorizon == 33000000

MaxNow == Epoch + Horizon
LiveMaxNow == Epoch + LiveHorizon

\* Values the host supplies for the `duration` property and attribute.
DurationInputs == {0, 2, 28802}
DurationAttrInputs == {2}
\* Session durations (seconds) whose whole timer chain is followed.
LiveDurationInputs == {2, 61, 28802}
\* Values the host supplies for `keepalive` (property or attribute).
KeepaliveInputs == {20, 31}
\* Milliseconds the host lets pass between two of its operations.
AdvanceSteps == {40000}
\* Milliseconds that may pass between two successive clock reads of one handler.
Elapsed == {0, 1}

\* ------------------------------------------------------ program constants
minKeepalive == 30
multipliers == <<31557600, 2629800, 604800, 86400, 3600, 60>>
units == <<"year", "month", "week", "day", "hour", "minute">>
\* Defaults the constructor gives the label properties.
after == "expired"
before == "expires"
start == "in"
end == "ago"
\* "duration below this is in seconds" (sanitiseDuation).
minMilliseconds == 180000
\* updateStrings stops re-scheduling once diff reaches 8 hours.
maxDiff == 28800

\* ------------------------------------------------------------ JS values
\* A Date (or the absence of one): k is "null", "date" or "invalid" (NaN).
NullDate == [k |-> "null", v |-> 0]
DateOf(t) == [k |-> "date", v |-> t]

\* A variant that rounds toward zero, as Math.trunc would.
FloorDivTrunc(a, b) == IF a < 0 THEN 0 - ((0 - a) \div b) ELSE a \div b

\* A Date whose time value is NaN.
InvalidDate == [k |-> "invalid", v |-> 0]

\* Math.floor(a / 1000) for any integer a (\div already rounds down).
FloorDiv(a, b) == a \div b

\* ------------------------------------------------------ getDurationData
\* The loop "for a ... if (_diff > multipliers[a]) ... break": the index of
\* the first multiplier that diff strictly exceeds, 0 when there is none.
RECURSIVE FindUnitInclusive(_, _)
\* A variant that takes a unit as soon as diff reaches its multiplier.
FindUnitInclusive(a, diff) ==
  IF a > Len(units) THEN 0
  ELSE IF diff >= multipliers[a] THEN a
  ELSE FindUnitInclusive(a + 1, diff)

RECURSIVE FindUnit(_, _)
FindUnit(a, diff) ==
  IF a > Len(units) THEN 0
  ELSE IF diff > multipliers[a] THEN a
  ELSE FindUnit(a + 1, diff)

\* A variant whose `next` starts at 0 instead of 1.
rescheduleFromZero(a, diff, past) ==
  LET extra == IF a = 0 THEN 0 ELSE diff % multipliers[a]
      next0 == IF a = 0 THEN 0
               ELSE IF extra > 0 /\ ~past THEN extra ELSE multipliers[a]
  IN IF ~past /\ diff # 0 /\ next0 % 60 = 0 THEN 1 ELSE next0

\* A variant without the "tick over" correction of the minute multiples.
rescheduleNoSnap(a, diff, past) ==
  LET extra == IF a = 0 THEN 0 ELSE diff % multipliers[a]
  IN IF a = 0 THEN 1
     ELSE IF extra > 0 /\ ~past THEN extra ELSE multipliers[a]

\* `next`, the seconds until the next update: 1 when no unit matched, else
\* extra (future, extra > 0) or the unit's multiplier; then forced to 1 when
\* in the future, diff # 0 and next is a multiple of 60.
reschedule(a, diff, past) ==
  LET extra == IF a = 0 THEN 0 ELSE diff % multipliers[a]
      next0 == IF a = 0 THEN 1
               ELSE IF extra > 0 /\ ~past THEN extra ELSE multipliers[a]
  IN IF ~past /\ diff # 0 /\ next0 % 60 = 0 THEN 1 ELSE next0

\* The body of getDurationData once _diff = d0 (signed seconds) is known;
\* `next` is still in seconds.
durationOfSeconds(d0, bef, aft, st, en) ==
  LET past == d0 < 0
      diff == IF past THEN 0 - d0 ELSE d0
      endWord == IF past THEN " " \o en ELSE ""
      prefixTxt == IF past THEN aft ELSE bef
      startWord == IF past THEN "" ELSE " " \o st
      a == FindUnit(1, diff)
      humanVal == IF a = 0 THEN diff ELSE diff \div multipliers[a]
      unit == IF a = 0 THEN "second" ELSE units[a]
  IN [ dynamicDuration |->
         IF diff = 0 THEN "now"
         ELSE ToString(humanVal) \o " " \o unit
                \o (IF humanVal # 1 THEN "s" ELSE ""),
       diff |-> diff, endWord |-> endWord, invalid |-> FALSE,
       isPast |-> past, prefixTxt |-> prefixTxt,
       startWord |-> IF diff = 0 THEN "" ELSE startWord,
       next |-> reschedule(a, diff, past) ]

getDurationData(tnow, when, bef, aft, st, en) ==
  IF when.k # "date"
  THEN [ dynamicDuration |-> "unknown", diff |-> 0, endWord |-> "",
         invalid |-> TRUE, isPast |-> FALSE, prefixTxt |-> "",
         startWord |-> bef, timeout |-> 0 ]
  ELSE
    LET c == durationOfSeconds(FloorDiv(when.v - tnow, 1000), bef, aft, st, en)
    IN [ dynamicDuration |-> c.dynamicDuration,
         diff |-> c.diff, endWord |-> c.endWord, invalid |-> FALSE,
         isPast |-> c.isPast, prefixTxt |-> c.prefixTxt,
         startWord |-> c.startWord,
         timeout |-> c.next * 1000 ]

\* ---------------------------------------------------------- sanitiseDuation
\* A variant that also takes exactly 180000 for seconds.
sanitiseDuationInclusive(duration) ==
  IF duration <= minMilliseconds THEN duration * 1000 ELSE duration

\* For an integer (or integer string): seconds become milliseconds.
sanitiseDuation(duration) ==
  IF duration < minMilliseconds THEN duration * 1000 ELSE duration

\* ------------------------------------------------------------ setEndInner
\* The value of this._end after setEndInner(newEnd), where tcheck is the
\* clock reading of its "newEnd.valueOf() < Date.now()" test.  newEnd is a
\* Date, never the string 'invalid date', so the first branch cannot be
\* taken; an invalid Date compares false and is stored.
setEndInner(cur, newEnd, tcheck) ==
  IF newEnd.k = "date" /\ newEnd.v < tcheck THEN cur ELSE newEnd

\* setEnd(dateTimeStr) called at clock reading t: it throws for an empty
\* string and otherwise calls setEndInner(new Date()); the string's content
\* is not used.  Yields the new this._end and what was thrown.
setEnd(cur, w, t, tcheck) ==
  IF w.text = ""
  THEN [end |-> cur, err |-> "Error"]
  ELSE [end |-> setEndInner(cur, DateOf(t), tcheck), err |-> "none"]

\* resetEnd() run with `this` bound to self ("element" or "window"): on the
\* window this.setEndInner is undefined and the call throws a TypeError.
resetEnd(self, cur, dur, t, tcheck) ==
  IF self = "element"
  THEN [end |-> setEndInner(cur, DateOf(t + dur), tcheck), err |-> "none"]
  ELSE [end |-> cur, err |-> "TypeError"]

\* setSessionEnd(event) run with `this` bound to self, for an event whose
\* detail is the string w: on the window this.setEnd is undefined.
setSessionEnd(self, cur, w, t, tcheck) ==
  IF self = "element"
  THEN setEnd(cur, w, t, tcheck)
  ELSE [end |-> cur, err |-> "TypeError"]

\* What `this` is when the window calls a listener that setListeners
\* registered: the methods are passed unbound, so it is the window.
listenerThis == "window"

\* A variant that forgets the previous direction.
justExpiredAnyPast(wasPast, tmpIsPast) == tmpIsPast = TRUE

\* The test of updateStrings for "we have just transitioned from before to
\* after the expiry date".
justExpired(wasPast, tmpIsPast) == wasPast = FALSE /\ tmpIsPast = TRUE

\* ---------------------------------------------------------- updateKeepAlive
watchableEvents == <<"onfocus", "onblur", "keyup", "mousedown", "onscroll">>

\* What reading this.keepaliveCallback yields: the class defines a setter
\* for keepaliveCallback and no getter, so the read is undefined whatever
\* this._keepaliveCallback holds.
keepaliveCallbackGet(cb) == "undefined"

\* A variant that forgets to record when the last keepalive was sent.
updateKeepAliveNoStamp(k, t, ka) ==
  LET k1 == [k EXCEPT !.li = t]
  IN IF (t - k.lk) > ka * 1000
     THEN [k1 EXCEPT !.out = Append(@, "keepalive")]
     ELSE k1

\* A variant whose catch branch leaves the handler in place.
updateKeepAliveKeepsHandler(k, t, ka) ==
  LET k1 == [k EXCEPT !.li = t]
  IN IF (t - k.lk) > ka * 1000
     THEN IF k.cb = "null"
          THEN [k1 EXCEPT !.lk = t, !.out = Append(@, "keepalive")]
          ELSE IF keepaliveCallbackGet(k.cb) = "function"
               THEN [k1 EXCEPT !.lk = t, !.inv = @ + 1]
               ELSE [k1 EXCEPT !.lk = t, !.caught = @ + 1,
                               !.out = Append(@, "keepalive")]
     ELSE k1

\* One call of updateKeepAlive at clock reading t.  k carries the fields
\* the method touches: li = _lastInteraction, lk = _lastKeep,
\* cb = _keepaliveCallback, out = events dispatched, inv = handler calls,
\* caught = errors caught by its try/catch.
\* ka is what the keepalive getter returns.
updateKeepAlive(k, t, ka) ==
  LET k1 == [k EXCEPT !.li = t]
  IN IF (t - k.lk) > ka * 1000
     THEN IF k.cb = "null"
          THEN [k1 EXCEPT !.lk = t, !.out = Append(@, "keepalive")]
          ELSE IF keepaliveCallbackGet(k.cb) = "function"
               THEN [k1 EXCEPT !.lk = t, !.inv = @ + 1]
               ELSE \* calling undefined throws a TypeError inside the try
                    [k1 EXCEPT !.lk = t, !.cb = "null", !.caught = @ + 1,
                               !.out = Append(@, "keepalive")]
     ELSE k1

\* "for (const event of watchableEvents) window.xxxEventListener(event,
\* this.updateKeepAlive())": the method is called once per event name and
\* its result, undefined, is what is handed to the window.
RECURSIVE updateKeepAliveEach(_, _, _, _)
updateKeepAliveEach(n, k, t, ka) ==
  IF n = 0 THEN k ELSE updateKeepAliveEach(n - 1, updateKeepAlive(k, t, ka), t, ka)

\* The keepalive part of setListeners and of clearListeners.
watchListeners(k, t, ka) ==
  IF ka > minKeepalive
  THEN updateKeepAliveEach(Len(watchableEvents), k, t, ka)
  ELSE k

\* ---------------------------------------------------------------- history
\* Number of keepalive signals in what an operation produced.
Count(seq, x) == Cardinality({i \in 1..Len(seq) : seq[i] = x})

LastTwo(seq) == IF Len(seq) <= 2 THEN seq ELSE SubSeq(seq, Len(seq) - 1, Len(seq))

RECURSIVE Times(_, _)
Times(n, x) == IF n = 0 THEN << >> ELSE <<x>> \o Times(n - 1, x)

\* signals after an operation at time t that produced n keepalive signals.
LogSignals(sig, n, t) == LastTwo(sig \o Times(n, t))

\* ------------------------------------------------------------------ state
VARIABLES
  now,                \* the wall clock, what Date.now() returns
  connected,          \* the element is in the document
  listening,          \* the window listeners of setListeners are registered
  _duration,          \* this._duration
  _keepalive,         \* this._keepalive
  _keepaliveCallback, \* this._keepaliveCallback: "null" or "function"
  _end,               \* this._end: a Date or null
  isPast,             \* this.isPast
  diff,               \* this.diff (undefined, here -1, until the first tick)
  _timeout,           \* this._timeout: the id of the last timer set, or null
  timers,             \* the pending timers of the scheduler, by due time
  _lastInteraction,   \* this._lastInteraction
  _lastKeep,          \* this._lastKeep
  _msgSpan,           \* this._msgSpan.innerText
  _valueSpan,         \* this._valueSpan.innerText
  emitted,            \* events dispatched by the last operation, in order
  invoked,            \* calls of the custom keepalive handler in the last operation
  err,                \* what the last operation threw ("none" if nothing)
  caught,             \* errors the last operation caught and reported
  op,                 \* the last operation and its input
  ops,                \* host-driven operations so far
  ticks,              \* timer callbacks so far
  cfgKeepalive,       \* history: the keepalive value the host last configured
  signals,            \* history: times of the last two keepalive signals
  signalCfg,          \* history: cfgKeepalive when the last signal was produced
  expiredCount,       \* history: sessionexpired events since _end last changed
  calc                \* a getDurationData call on its own: input and result

vars == << now, connected, listening, _duration, _keepalive, _keepaliveCallback,
           _end, isPast, diff, _timeout, timers, _lastInteraction, _lastKeep,
           _msgSpan, _valueSpan, emitted, invoked, err, caught, op, ops, ticks,
           cfgKeepalive, signals, signalCfg, expiredCount, calc >>

\* The state the constructor leaves (its property writes go through the
\* setters: duration 0, keepalive 0, keepaliveCallback null, when '').
NoCalc == [kind |-> "none"]

Constructed ==
  /\ now = Epoch
  /\ connected = FALSE
  /\ listening = FALSE
  /\ _duration = 0
  /\ _keepalive = 0
  /\ _keepaliveCallback = "null"
  /\ _end = NullDate
  /\ isPast = FALSE
  /\ diff = -1
  /\ _timeout = NullDate
  /\ timers = {}
  /\ _lastInteraction = 0
  /\ _lastKeep = 0
  /\ _msgSpan = ""
  /\ _valueSpan = ""
  /\ emitted = << >>
  /\ invoked = 0
  /\ err = "none"
  /\ caught = 0
  /\ op = [name |-> "constructor", arg |-> 0, text |-> ""]
  /\ ops = 0
  /\ ticks = 0
  /\ cfgKeepalive = 0
  /\ signals = << >>
  /\ signalCfg = 0
  /\ expiredCount = 0

Init ==
  /\ Constructed
  /\ calc = NoCalc

\* ---------------------------------------------------------------- inputs
\* Date-time strings the host supplies: one Date() cannot parse and ISO 8601
\* strings for an instant `at` before or after now (and, as an attribute,
\* the empty string).
WhenOffsets == {-60000, 60000}
WhenStrings(t) ==
  {[text |-> "garbage", at |-> 0]}
    \cup {[text |-> "iso", at |-> t + o] : o \in WhenOffsets}
WhenAttrInputs(t) == {[text |-> "", at |-> 0], [text |-> "iso", at |-> t + 60000]}
WhenEventInputs(t) == {[text |-> "iso", at |-> t + 60000]}
\* Values the host assigns to the keepaliveCallback property.
CallbackInputs == {"function"}
\* An attribute: absent (<< >>) or present with a value (<<v>>).
Attr(S) == {<< >>} \cup {<<v>> : v \in S}

\* ---------------------------------------------------------------- framing
configVars == << _duration, _keepalive, cfgKeepalive >>
keepVars == << _lastInteraction, _lastKeep, _keepaliveCallback,
               signals, signalCfg >>
tickVars == << isPast, diff, _msgSpan, _valueSpan, expiredCount >>
timerVars == << _timeout, timers >>

\* Every host-driven operation counts against MaxOps and names itself.
Host(name, arg, text) ==
  /\ ops < MaxOps
  /\ ops' = ops + 1
  /\ ticks' = ticks
  /\ calc' = calc
  /\ op' = [name |-> name, arg |-> arg, text |-> text]

\* An operation that dispatches nothing and throws nothing.
Quiet ==
  /\ emitted' = << >>
  /\ invoked' = 0
  /\ caught' = 0
  /\ err' = "none"

KeepState ==
  [li |-> _lastInteraction, lk |-> _lastKeep, cb |-> _keepaliveCallback,
   out |-> << >>, inv |-> 0, caught |-> 0]

\* Store what a run of updateKeepAlive calls at time t left, under the
\* host-configured threshold cfg.
ApplyKeep(k, t, cfg) ==
  LET n == Count(k.out, "keepalive") + k.inv
  IN /\ _lastInteraction' = k.li
     /\ _lastKeep' = k.lk
     /\ _keepaliveCallback' = k.cb
     /\ emitted' = k.out
     /\ invoked' = k.inv
     /\ caught' = k.caught
     /\ signals' = LogSignals(signals, n, t)
     /\ signalCfg' = IF n > 0 THEN cfg ELSE signalCfg

\* ------------------------------------------------------- property setters
\* el.duration = d
SetDuration(d) ==
  /\ Host("duration", d, "")
  /\ _duration' = sanitiseDuation(d)
  /\ Quiet
  /\ UNCHANGED << now, connected, listening, _keepalive, cfgKeepalive, _end,
                  keepVars, tickVars, timerVars >>

\* el.keepalive = k: a negative number is reported and not stored.
SetKeepalive(k) ==
  /\ Host("keepalive", k, "")
  /\ _keepalive' = IF k < 0 THEN _keepalive ELSE k
  /\ cfgKeepalive' = IF k < 0 THEN cfgKeepalive ELSE k
  /\ Quiet
  /\ UNCHANGED << now, connected, listening, _duration, _end,
                  keepVars, tickVars, timerVars >>

\* el.keepaliveCallback = v: only a function is stored; null is skipped and
\* anything else is reported.
SetKeepaliveCallback(v) ==
  /\ Host("keepaliveCallback", 0, v)
  /\ _keepaliveCallback' = IF v = "function" THEN v ELSE _keepaliveCallback
  /\ Quiet
  /\ UNCHANGED << now, connected, listening, configVars, _end,
                  _lastInteraction, _lastKeep, signals, signalCfg,
                  tickVars, timerVars >>

\* el.when = w: setEnd(w) throws for the empty string (the setter swallows
\* it); otherwise it calls setEndInner(new Date()), whatever w says.  e is
\* the time between new Date() and the Date.now() of the test.
SetWhen(w, e) ==
  /\ Host("when", w.at, w.text)
  /\ IF w.text = ""
     THEN /\ e = 0
          /\ UNCHANGED << now, _end, expiredCount >>
     ELSE /\ now + e <= MaxNow
          /\ now' = now + e
          /\ _end' = setEnd(_end, w, now, now + e).end
          /\ expiredCount' = IF _end' # _end THEN 0 ELSE expiredCount
  /\ Quiet
  /\ UNCHANGED << connected, listening, configVars, keepVars,
                  isPast, diff, _msgSpan, _valueSpan, timerVars >>

\* ------------------------------------------------------ lifecycle callbacks
\* connectedCallback with the attributes duration, when and keepalive
\* (absent or present).  e1 is the time that passes inside setEnd, e2 inside
\* resetEnd.  this.when has no getter, so it reads undefined and resetEnd()
\* always runs; an empty `when` attribute makes setEnd throw out of the
\* callback before anything but _duration is set.
Connect(durAttr, whenAttr, kaAttr, e1, e2) ==
  /\ ~connected
  /\ Host("connect", 0, "")
  /\ connected' = TRUE
  /\ LET dur1 == IF durAttr # << >> THEN sanitiseDuation(durAttr[1]) ELSE _duration
         t2 == IF whenAttr # << >> THEN now + e1 ELSE now
         end1 == IF whenAttr # << >>
                 THEN setEnd(_end, whenAttr[1], now, t2).end ELSE _end
         ka1 == IF kaAttr # << >> THEN sanitiseDuation(kaAttr[1]) ELSE _keepalive
         cfg1 == IF kaAttr # << >> THEN kaAttr[1] ELSE cfgKeepalive
         t3 == t2 + e2
         end2 == resetEnd("element", end1, dur1, t2, t3).end
         k == watchListeners(KeepState, t3, ka1)
     IN /\ whenAttr = << >> => e1 = 0
        /\ _duration' = dur1
        /\ IF whenAttr # << >> /\ whenAttr[1].text = ""
           THEN /\ e1 = 0 /\ e2 = 0
                /\ emitted' = << >>
                /\ invoked' = 0
                /\ caught' = 0
                /\ err' = "Error"
                /\ UNCHANGED << now, listening, _keepalive, cfgKeepalive, _end,
                                keepVars, tickVars, timerVars >>
           ELSE /\ t3 + 1000 <= MaxNow
                /\ now' = t3
                /\ _end' = end2
                /\ expiredCount' = IF end2 # _end THEN 0 ELSE expiredCount
                /\ _keepalive' = ka1
                /\ cfgKeepalive' = cfg1
                /\ listening' = TRUE
                /\ ApplyKeep(k, t3, cfg1)
                /\ err' = "none"
                /\ _timeout' = [k |-> "id", v |-> t3 + 1000]
                /\ timers' = timers \cup {t3 + 1000}
                /\ UNCHANGED << isPast, diff, _msgSpan, _valueSpan >>

\* A variant of disconnectedCallback whose null test is inverted.
DisconnectClearsNull ==
  /\ connected
  /\ Host("disconnect", 0, "")
  /\ connected' = FALSE
  /\ listening' = FALSE
  /\ ApplyKeep(watchListeners(KeepState, now, _keepalive), now, cfgKeepalive)
  /\ err' = "none"
  /\ timers' = IF _timeout.k = "null" THEN timers \ {_timeout.v} ELSE timers
  /\ UNCHANGED << now, configVars, _end, _timeout, tickVars >>

\* A variant of disconnectedCallback without its clearTimeout.
DisconnectLeavesTimer ==
  /\ connected
  /\ Host("disconnect", 0, "")
  /\ connected' = FALSE
  /\ listening' = FALSE
  /\ ApplyKeep(watchListeners(KeepState, now, _keepalive), now, cfgKeepalive)
  /\ err' = "none"
  /\ UNCHANGED << now, configVars, _end, _timeout, timers, tickVars >>

\* disconnectedCallback: clearListeners (which again calls updateKeepAlive
\* once per watchable event when keepalive > minKeepalive), then clearTimeout.
Disconnect ==
  /\ connected
  /\ Host("disconnect", 0, "")
  /\ connected' = FALSE
  /\ listening' = FALSE
  /\ ApplyKeep(watchListeners(KeepState, now, _keepalive), now, cfgKeepalive)
  /\ err' = "none"
  /\ timers' = IF _timeout.k = "id" THEN timers \ {_timeout.v} ELSE timers
  /\ UNCHANGED << now, configVars, _end, _timeout, tickVars >>

\* ------------------------------------------------------------ window events
\* A 'resetsession' event reaches the window, whose listener is
\* this.resetEnd.
ResetSessionEvent ==
  /\ listening
  /\ Host("resetsession", 0, "")
  /\ LET r == resetEnd(listenerThis, _end, _duration, now, now)
     IN /\ _end' = r.end
        /\ err' = r.err
        /\ expiredCount' = IF r.end # _end THEN 0 ELSE expiredCount
  /\ emitted' = << >>
  /\ invoked' = 0
  /\ caught' = 0
  /\ UNCHANGED << now, connected, listening, configVars, keepVars,
                  isPast, diff, _msgSpan, _valueSpan, timerVars >>

\* A 'setsessionend' event whose detail is the string w reaches the window,
\* whose listener is this.setSessionEnd.
SetSessionEndEvent(w) ==
  /\ listening
  /\ Host("setsessionend", w.at, w.text)
  /\ LET r == setSessionEnd(listenerThis, _end, w, now, now)
     IN /\ _end' = r.end
        /\ err' = r.err
        /\ expiredCount' = IF r.end # _end THEN 0 ELSE expiredCount
  /\ emitted' = << >>
  /\ invoked' = 0
  /\ caught' = 0
  /\ UNCHANGED << now, connected, listening, configVars, keepVars,
                  isPast, diff, _msgSpan, _valueSpan, timerVars >>

\* A user interaction (focus, blur, key-up, mouse-down, scroll) reaches the
\* window.  setListeners registered the result of this.updateKeepAlive(),
\* undefined, for these events, so no listener of the element runs.
Interaction ==
  /\ Host("interaction", 0, "")
  /\ Quiet
  /\ UNCHANGED << now, connected, listening, configVars, _end, keepVars,
                  tickVars, timerVars >>

\* -------------------------------------------------------------------- time
\* d milliseconds pass with nothing happening (a pending timer becomes late
\* when the page was suspended that long).
Advance(d) ==
  /\ now + d <= MaxNow
  /\ now' = now + d
  /\ op' = [name |-> "advance", arg |-> d, text |-> ""]
  /\ calc' = calc
  /\ Quiet
  /\ UNCHANGED << ops, ticks, connected, listening, configVars, _end, keepVars,
                  tickVars, timerVars >>

\* ---------------------------------------------------------- updateStrings
\* A variant that re-schedules however long ago the session expired.
updateStringsNoCutOff(t, limit) ==
  /\ t \in timers
  /\ t <= limit
  /\ op' = [name |-> "tick", arg |-> 0, text |-> ""]
  /\ invoked' = 0
  /\ caught' = 0
  /\ calc' = calc
  /\ LET tnow == IF now < t THEN t ELSE now
         cleared == IF _timeout.k = "id"
                    THEN (timers \ {t}) \ {_timeout.v} ELSE timers \ {t}
         tmp == getDurationData(tnow, _end, before, after, start, end)
         fire == justExpired(isPast, tmp.isPast)
         again == tmp.invalid = FALSE
     IN /\ now' = tnow
        /\ IF _end.k = "null"
           THEN \* this._end.valueOf() throws a TypeError
                /\ timers' = cleared
                /\ emitted' = << >>
                /\ err' = "TypeError"
                /\ UNCHANGED << _timeout, tickVars >>
           ELSE /\ emitted' = IF fire THEN <<"sessionexpired">> ELSE << >>
                /\ expiredCount' = IF fire THEN expiredCount + 1 ELSE expiredCount
                /\ isPast' = tmp.isPast
                /\ diff' = tmp.diff
                /\ _msgSpan' = "Session " \o tmp.prefixTxt \o tmp.startWord \o " "
                /\ _valueSpan' = tmp.dynamicDuration \o tmp.endWord
                /\ err' = "none"
                /\ IF again
                   THEN /\ _timeout' = [k |-> "id", v |-> tnow + tmp.timeout]
                        /\ timers' = cleared \cup {tnow + tmp.timeout}
                   ELSE /\ _timeout' = _timeout
                        /\ timers' = cleared
  /\ UNCHANGED << ops, connected, listening, configVars, _end, keepVars >>

\* The timer due at t fires, once the clock has reached t (it fires late
\* when more time than that has passed), and runs the closure that
\* updateStrings(context) returned, with context = this.  tnow is the
\* closure's Date.now(); limit is where the model stops the clock.
updateStrings(t, limit) ==
  /\ t \in timers
  /\ t <= limit
  /\ op' = [name |-> "tick", arg |-> 0, text |-> ""]
  /\ invoked' = 0
  /\ caught' = 0
  /\ calc' = calc
  /\ LET tnow == IF now < t THEN t ELSE now
         cleared == IF _timeout.k = "id"
                    THEN (timers \ {t}) \ {_timeout.v} ELSE timers \ {t}
         tmp == getDurationData(tnow, _end, before, after, start, end)
         fire == justExpired(isPast, tmp.isPast)
         again == tmp.invalid = FALSE /\ tmp.diff < maxDiff
     IN /\ now' = tnow
        /\ IF _end.k = "null"
           THEN \* this._end.valueOf() throws a TypeError
                /\ timers' = cleared
                /\ emitted' = << >>
                /\ err' = "TypeError"
                /\ UNCHANGED << _timeout, tickVars >>
           ELSE /\ emitted' = IF fire THEN <<"sessionexpired">> ELSE << >>
                /\ expiredCount' = IF fire THEN expiredCount + 1 ELSE expiredCount
                /\ isPast' = tmp.isPast
                /\ diff' = tmp.diff
                /\ _msgSpan' = "Session " \o tmp.prefixTxt \o tmp.startWord \o " "
                /\ _valueSpan' = tmp.dynamicDuration \o tmp.endWord
                /\ err' = "none"
                /\ IF again
                   THEN /\ _timeout' = [k |-> "id", v |-> tnow + tmp.timeout]
                        /\ timers' = cleared \cup {tnow + tmp.timeout}
                   ELSE /\ _timeout' = _timeout
                        /\ timers' = cleared
  /\ UNCHANGED << ops, connected, listening, configVars, _end, keepVars >>

Tick(t) ==
  /\ ticks < MaxTicks
  /\ ticks' = ticks + 1
  /\ updateStrings(t, MaxNow)

\* ------------------------------------------------------------ specification
Next ==
  \/ \E d \in DurationInputs : SetDuration(d)
  \/ \E k \in KeepaliveInputs : SetKeepalive(k)
  \/ \E v \in CallbackInputs : SetKeepaliveCallback(v)
  \/ \E w \in WhenStrings(now), e \in Elapsed : SetWhen(w, e)
  \/ \E da \in Attr(DurationAttrInputs), wa \in Attr(WhenAttrInputs(now)),
        ka \in Attr(KeepaliveInputs), e1 \in Elapsed, e2 \in Elapsed :
       Connect(da, wa, ka, e1, e2)
  \/ Disconnect
  \/ ResetSessionEvent
  \/ \E w \in WhenEventInputs(now) : SetSessionEndEvent(w)
  \/ Interaction
  \/ \E d \in AdvanceSteps : Advance(d)
  \/ \E t \in timers : Tick(t)

Spec == Init /\ [][Next]_vars

\* The timer chain alone, followed to its end: the host configures the
\* duration, connects the element and then leaves it to its timer, which
\* the scheduler fires whenever one is pending.
LiveTick(t) ==
  /\ ticks' = ticks
  /\ updateStrings(t, LiveMaxNow)

\* el.when = w on a connected element whose timer chain has ended.
LiveSetWhen(w) ==
  /\ connected
  /\ timers = {}
  /\ Host("when", w.at, w.text)
  /\ _end' = setEnd(_end, w, now, now).end
  /\ expiredCount' = IF _end' # _end THEN 0 ELSE expiredCount
  /\ Quiet
  /\ UNCHANGED << now, connected, listening, configVars, keepVars,
                  isPast, diff, _msgSpan, _valueSpan, timerVars >>

LiveNext ==
  \/ \E d \in LiveDurationInputs : ~connected /\ SetDuration(d)
  \/ \E e2 \in Elapsed : Connect(<< >>, << >>, << >>, 0, e2)
  \/ \E t \in timers : LiveTick(t)
  \/ \E w \in WhenEventInputs(now) : LiveSetWhen(w)

LiveSpec == Init /\ [][LiveNext]_vars /\ WF_vars(\E t \in timers : LiveTick(t))

\* ------------------------------------------- the calculator on its own
\* getDurationData, durationOfSeconds and the duration setter applied to
\* inputs drawn from bounded sets.  Offsets in milliseconds stay below
\* MaxMsSeconds seconds so that every clock reading fits the 32-bit
\* integers of TLC; the month and year units are reached through
\* durationOfSeconds, whose input is already in seconds.
MaxMsSeconds == 2000000

CalcSeconds ==
  { 0, 1, 2, 59, 60, 61, 119, 120, 121, 3599, 3600, 3601, 3661, 7200, 7201,
    28799, 28800, 28801, 86399, 86400, 86401, 172800, 172801,
    604799, 604800, 604801, 1209600, 1209601,
    2629799, 2629800, 2629801, 5259600, 5259601,
    31557599, 31557600, 31557601, 63115200, 63115201 }

CalcMillis == {0, 1, 999}

\* target - now, in milliseconds, on both sides of now.
CalcOffsets ==
  { sg * (sec * 1000 + ms) :
      sec \in {x \in CalcSeconds : x <= MaxMsSeconds},
      ms \in CalcMillis, sg \in {-1, 1} }

\* The four labels handed to getDurationData: the element's defaults and
\* a set of the host's own.
DefaultLabels == [bef |-> before, aft |-> after, st |-> start, en |-> end]

CalcLabels ==
  { DefaultLabels,
    [bef |-> "closes", aft |-> "closed", st |-> "within", en |-> "back"] }

\* el.duration = d, on both sides of the 180000 boundary.
CalcDurationInputs == {-1, 0, 1, 179999, 180000, 180001, 200000}

NoResult == << >>

CalcInputs ==
  { [kind |-> "ms", now |-> Epoch, when |-> DateOf(Epoch + o), secs |-> 0,
     lab |-> l, done |-> FALSE, out |-> NoResult] :
      o \in CalcOffsets, l \in CalcLabels }
  \cup
  { [kind |-> "ms", now |-> Epoch, when |-> InvalidDate, secs |-> 0,
     lab |-> l, done |-> FALSE, out |-> NoResult] : l \in CalcLabels }
  \cup
  { [kind |-> "s", now |-> 0, when |-> NullDate, secs |-> sg * sec,
     lab |-> l, done |-> FALSE, out |-> NoResult] :
      sec \in CalcSeconds, sg \in {-1, 1}, l \in CalcLabels }
  \cup
  { [kind |-> "duration", now |-> 0, when |-> NullDate, secs |-> 0,
     lab |-> DefaultLabels, done |-> FALSE, out |-> NoResult] }

elementVars ==
  << now, connected, listening, _duration, _keepalive, _keepaliveCallback,
     _end, isPast, diff, _timeout, timers, _lastInteraction, _lastKeep,
     _msgSpan, _valueSpan, emitted, invoked, err, caught, op, ops, ticks,
     cfgKeepalive, signals, signalCfg, expiredCount >>

CalcInit ==
  /\ Constructed
  /\ calc \in CalcInputs

\* getDurationData(now, when, before, after, start, end)
Calculate ==
  /\ calc.kind = "ms"
  /\ ~calc.done
  /\ calc' = [calc EXCEPT
                !.done = TRUE,
                !.out = getDurationData(calc.now, calc.when, calc.lab.bef,
                                        calc.lab.aft, calc.lab.st,
                                        calc.lab.en)]
  /\ UNCHANGED elementVars

\* The same with _diff given in seconds.
CalculateSeconds ==
  /\ calc.kind = "s"
  /\ ~calc.done
  /\ calc' = [calc EXCEPT
                !.done = TRUE,
                !.out = durationOfSeconds(calc.secs, calc.lab.bef,
                                          calc.lab.aft, calc.lab.st,
                                          calc.lab.en)]
  /\ UNCHANGED elementVars

\* el.duration = d on a freshly constructed element.
CalcSetDuration ==
  /\ calc.kind = "duration"
  /\ \E d \in CalcDurationInputs : SetDuration(d)

CalcNext ==
  \/ Calculate
  \/ CalculateSeconds
  \/ CalcSetDuration

CalcSpec == CalcInit /\ [][CalcNext]_vars

\* ------------------------------------------------------------------ claims
KeepaliveSignals == Count(emitted, "keepalive") + invoked

\* C1: between two changes of the end time, a timer callback dispatches
\* sessionexpired exactly when the recorded direction was "not past" and the
\* end time now lies in the past, and it is dispatched at most once: later
\* callbacks that stay in the past do not dispatch it again.
C1_ExpiredOnce ==
  [][ op'.name = "tick" =>
        /\ Count(emitted', "sessionexpired") =
             (IF ~isPast /\ _end.k = "date" /\ _end.v < now' THEN 1 ELSE 0)
        /\ expiredCount' <= 1 ]_vars

\* A callback after the crossing that stayed in the past and dispatched nothing.
C1_Witness ==
  /\ op.name = "tick"
  /\ isPast
  /\ expiredCount = 1
  /\ emitted = << >>
  /\ err = "none"

\* C2: once the element is connected with a positive duration and an end
\* time later than now, and is left to its timer, sessionexpired is
\* eventually dispatched.
C2_EventuallyExpired ==
  (connected /\ _duration > 0 /\ _end.k = "date" /\ _end.v > now)
    ~> (expiredCount > 0)

\* C3: an absolute reset of a connected element (the when property or a
\* setsessionend event) with an instant later than now leaves the end time
\* equal to that instant.
C3_AbsoluteReset ==
  [][ (connected /\ op'.name \in {"when", "setsessionend"}
        /\ op'.text = "iso" /\ op'.arg > now')
      => _end' = DateOf(op'.arg) ]_vars

\* C4: a relative reset (a resetsession event) with a positive duration
\* leaves the end time equal to now + duration.
C4_RelativeReset ==
  [][ (op'.name = "resetsession" /\ _duration > 0)
      => _end' = DateOf(now' + _duration) ]_vars

\* C5: a reset whose instant is not later than now (an absolute reset with a
\* past instant, a relative reset with duration <= 0) changes nothing.
C5_PastResetIgnored ==
  [][ ( \/ (connected /\ op'.name \in {"when", "setsessionend"}
             /\ op'.text = "iso" /\ op'.arg <= now)
        \/ (op'.name = "resetsession" /\ _duration <= 0) )
      => UNCHANGED << _end, isPast, diff, _timeout, timers, _duration,
                      _keepalive, _lastInteraction, _lastKeep >> ]_vars

\* C6: an absolute reset with an unparsable date-time string changes
\* nothing: the end time stays and the pending timer stays.
C6_UnparsableIgnored ==
  [][ (connected /\ op'.name \in {"when", "setsessionend"}
        /\ op'.text = "garbage")
      => UNCHANGED << _end, _timeout, timers >> ]_vars

\* C7: two consecutive keepalive signals are more than the configured
\* keepalive seconds apart.
C7_Throttle ==
  Len(signals) = 2 => signals[2] - signals[1] > signalCfg * 1000

\* A second keepalive signal has been produced.
C7_Witness ==
  /\ Len(signals) = 2
  /\ KeepaliveSignals = 1
  /\ cfgKeepalive > minKeepalive

\* C8: a user interaction on a connected element whose configured keepalive
\* is above the floor, more than that long after the last keepalive, sets
\* _lastKeep to now and produces exactly one keepalive signal.
C8_InteractionKeepalive ==
  [][ (op'.name = "interaction" /\ listening
        /\ cfgKeepalive > minKeepalive
        /\ now' - _lastKeep > cfgKeepalive * 1000)
      => (_lastKeep' = now' /\ KeepaliveSignals' = 1) ]_vars

\* C9: while the configured keepalive is at most the floor of 30 seconds no
\* keepalive signal is produced.
C9_NoKeepaliveBelowFloor ==
  cfgKeepalive <= minKeepalive => KeepaliveSignals = 0

\* C10: when a keepalive is due and a custom handler is configured, the
\* handler is called and no keepalive event is dispatched.
C10_CustomHandlerCalled ==
  [][ (_keepaliveCallback = "function" /\ KeepaliveSignals' > 0)
      => (invoked' = 1 /\ Count(emitted', "keepalive") = 0) ]_vars

\* C11: when the call of the custom handler raises (the try block of
\* updateKeepAlive reaches its catch), the same operation still dispatches
\* one default keepalive event and the handler is reset to null; and while
\* the handler is null a keepalive is only ever the default event, with no
\* handler call and nothing caught.
C11_HandlerFailureFallsBack ==
  [][ /\ caught' > 0
         => /\ Count(emitted', "keepalive") = 1
            /\ _keepaliveCallback' = "null"
            /\ invoked' = 0
      /\ (_keepaliveCallback = "null" /\ op'.name # "keepaliveCallback")
         => /\ invoked' = 0
            /\ caught' = 0
            /\ Count(emitted', "keepalive") = KeepaliveSignals' ]_vars

\* A handler call has just raised and been replaced by the default event.
C11_Witness ==
  /\ caught = 1
  /\ _keepaliveCallback = "null"
  /\ emitted = <<"keepalive">>
  /\ cfgKeepalive > minKeepalive

\* A getDurationData call on a valid target has returned.
CalcValidDone == calc.kind = "ms" /\ calc.done /\ calc.when.k = "date"

\* C12 as stated: for a valid target, isPast is (target <= now) and
\* diffSeconds is floor(|target - now| / 1000), never negative.
C12_PastOrEqualFloor ==
  CalcValidDone =>
    LET d == calc.when.v - calc.now
    IN /\ calc.out.isPast = (d <= 0)
       /\ calc.out.diff = (IF d > 0 THEN d \div 1000 ELSE (0 - d) \div 1000)
       /\ calc.out.diff >= 0

\* C12 amended: for a valid target, isPast is (target < now); diffSeconds
\* is floor((target - now) / 1000) when target >= now and
\* ceil((now - target) / 1000) when target < now, never negative.
C12_StrictlyPastCeiling ==
  CalcValidDone =>
    LET d == calc.when.v - calc.now
    IN /\ calc.out.isPast = (d < 0)
       /\ calc.out.diff = (IF d >= 0 THEN d \div 1000
                           ELSE ((0 - d) + 999) \div 1000)
       /\ calc.out.diff >= 0

\* A target a fraction of a second before now has been computed as past.
C12_Witness ==
  /\ CalcValidDone
  /\ calc.when.v < calc.now
  /\ (calc.now - calc.when.v) % 1000 # 0
  /\ calc.out.isPast

\* A call on a valid target has returned, with the seconds it was about.
CalcTextDone ==
  /\ calc.kind \in {"ms", "s"}
  /\ calc.done
  /\ calc.out.invalid = FALSE

\* "<value> <unit>", with a trailing "s" unless the value is 1.
C13_Form(value, unit) ==
  ToString(value) \o " " \o unit \o (IF value = 1 THEN "" ELSE "s")

\* The text the rule of C13 gives for diffSeconds = d.
C13_Text(d) ==
  IF d = 0 THEN "now"
  ELSE IF d > 31557600 THEN C13_Form(d \div 31557600, "year")
  ELSE IF d > 2629800 THEN C13_Form(d \div 2629800, "month")
  ELSE IF d > 604800 THEN C13_Form(d \div 604800, "week")
  ELSE IF d > 86400 THEN C13_Form(d \div 86400, "day")
  ELSE IF d > 3600 THEN C13_Form(d \div 3600, "hour")
  ELSE IF d > 60 THEN C13_Form(d \div 60, "minute")
  ELSE C13_Form(d, "second")

\* C13: for every valid result humanText is "now" when diffSeconds is 0 and
\* otherwise "<value> <unit>" for the first of year, month, week, day, hour,
\* minute whose threshold diffSeconds strictly exceeds (value the floored
\* quotient), or seconds when none is exceeded, with a trailing "s" exactly
\* when the value is not 1.
C13_HumanText ==
  CalcTextDone =>
    /\ calc.out.dynamicDuration = C13_Text(calc.out.diff)
    /\ calc.kind = "s" =>
         calc.out.diff = (IF calc.secs < 0 THEN 0 - calc.secs ELSE calc.secs)

\* Exactly one year of seconds does not exceed the year threshold and has
\* been rendered in months.
C13_Witness ==
  /\ CalcTextDone
  /\ calc.out.diff = 31557600
  /\ calc.out.dynamicDuration = "12 months"

\* The threshold the rule of C14 matches for diffSeconds = d, 0 for none.
C14_Threshold(d) ==
  IF d > 31557600 THEN 31557600
  ELSE IF d > 2629800 THEN 2629800
  ELSE IF d > 604800 THEN 604800
  ELSE IF d > 86400 THEN 86400
  ELSE IF d > 3600 THEN 3600
  ELSE IF d > 60 THEN 60
  ELSE 0

\* rescheduleSeconds by the rule of C14.
C14_Seconds(d, past) ==
  LET T == C14_Threshold(d)
      first == IF T = 0 THEN 1
               ELSE IF ~past /\ d % T > 0 THEN d % T
               ELSE T
  IN IF ~past /\ d # 0 /\ first % 60 = 0 THEN 1 ELSE first

\* C14: with T the matched threshold and extra = diffSeconds mod T,
\* rescheduleSeconds is extra for a future target with extra > 0 and T
\* otherwise (always T for a past target), 1 when no threshold matched, and
\* is then forced to 1 when the target is in the future, diffSeconds # 0
\* and the value is a multiple of 60; rescheduleDelayMs is a thousand times
\* that (3661 s ahead gives 61000 ms, 120 s ahead gives 1000 ms).
C14_Reschedule ==
  CalcTextDone =>
    /\ calc.kind = "s" =>
         calc.out.next = C14_Seconds(calc.out.diff, calc.out.isPast)
    /\ calc.kind = "ms" =>
         /\ calc.out.timeout
              = C14_Seconds(calc.out.diff, calc.out.isPast) * 1000
         /\ calc.when.v - calc.now = 3661000 => calc.out.timeout = 61000
         /\ calc.when.v - calc.now = 120000 => calc.out.timeout = 1000

\* A target two minutes ahead has been computed and its delay forced to a
\* second.
C14_Witness ==
  /\ CalcTextDone
  /\ calc.kind = "ms"
  /\ calc.when.v - calc.now = 120000
  /\ calc.out.timeout = 1000

\* A getDurationData call on a NaN target has returned.
CalcInvalidDone == calc.kind = "ms" /\ calc.done /\ calc.when.k = "invalid"

\* C15: for a NaN target the result is invalid, with humanText "unknown",
\* diffSeconds 0, rescheduleDelayMs 0, prefixLabel equal to the supplied
\* beforeLabel, and empty startWord and endWord.
C15_InvalidResult ==
  CalcInvalidDone =>
    /\ calc.out.invalid = TRUE
    /\ calc.out.dynamicDuration = "unknown"
    /\ calc.out.diff = 0
    /\ calc.out.timeout = 0
    /\ calc.out.prefixTxt = calc.lab.bef
    /\ calc.out.startWord = ""
    /\ calc.out.endWord = ""

\* C16: setting duration to an integer d stores d * 1000 when d < 180000
\* and d itself when d >= 180000.
C16_DurationUnits ==
  op.name = "duration" =>
    _duration = (IF op.arg < 180000 THEN op.arg * 1000 ELSE op.arg)

\* Exactly 180000 has been set and stored as milliseconds.
C16_Witness ==
  /\ op.name = "duration"
  /\ op.arg = 180000
  /\ _duration = 180000

\* C17: a disconnect, whether a timer is pending or the connect never got
\* as far as setting one, throws nothing and leaves no pending timer; and
\* while the element stays disconnected no tick runs, the display is not
\* updated and no sessionexpired is dispatched.
C17_TeardownStopsTicks ==
  [][ /\ op'.name = "disconnect" => (err' = "none" /\ timers' = {})
      /\ (~connected /\ ~connected')
         => /\ timers' = {}
            /\ op'.name # "tick"
            /\ Count(emitted', "sessionexpired") = 0
            /\ UNCHANGED << isPast, diff, _msgSpan, _valueSpan >> ]_vars

\* A disconnect has cancelled a timer that was still to fire, after the
\* display had been ticking.
C17_Witness ==
  /\ op.name = "disconnect"
  /\ ~connected
  /\ ticks >= 1
  /\ _timeout.k = "id"
  /\ _timeout.v > now
  /\ timers = {}

\* C18: every tick that writes the display also dispatches a sessionwillend
\* event (whose detail is the number of seconds remaining).
C18_WillEndOnTick ==
  [][ (op'.name = "tick" /\ err' = "none")
      => Count(emitted', "sessionwillend") >= 1 ]_vars

\* C19: in every reachable state at most one timer is pending, and it is
\* the one this._timeout names: a tick is never scheduled while an earlier
\* one is still pending.
C19_AtMostOneTimer ==
  /\ Cardinality(timers) <= 1
  /\ timers # {} => (_timeout.k = "id" /\ timers = {_timeout.v})

\* An element that had been ticking was disconnected and connected again,
\* and has its one new timer pending.
C19_Witness ==
  /\ op.name = "connect"
  /\ err = "none"
  /\ ticks >= 1
  /\ Cardinality(timers) = 1

\* C20: a tick leaves a next tick scheduled exactly when its result is valid
\* and it is not the case that the target is in the past with 28800 or more
\* seconds since expiry; so every tick on a future target, however far,
\* schedules a next tick.
C20_RescheduleRule ==
  [][ (op'.name = "tick" /\ err' = "none")
      => (timers' # {} <=> ~(isPast' /\ diff' >= 28800)) ]_vars

\* C21: when the timer chain has ended with the display frozen 28800 s or
\* more past the target, and a reset to an instant later than now is then
\* accepted, ticking resumes: a tick runs again.
C21_ResetResumesTicking ==
  ( /\ connected
    /\ timers = {}
    /\ isPast
    /\ diff >= maxDiff
    /\ op.name = "when"
    /\ op.arg > now
    /\ _end = DateOf(now) )
  ~> (op.name = "tick")

\* Instants between a computation at tnow and a second before the next one
\* it asks for: the first, the middle one (on a whole second) and the last.
C22_Probes(tnow, delay) ==
  {tnow, tnow + (delay \div 2000) * 1000, tnow + delay - 1000}

\* What the calculator gives at instant t for the call that was made.
C22_At(t) ==
  getDurationData(t, calc.when, calc.lab.bef, calc.lab.aft, calc.lab.st,
                  calc.lab.en)

\* C22: for every valid result computed at now with delay d, the text and
\* the direction the calculator gives for the same target at an instant
\* between now and now + d - 1000 ms are the ones computed at now.
C22_Staleness ==
  CalcValidDone =>
    \A t \in C22_Probes(calc.now, calc.out.timeout) :
      /\ C22_At(t).dynamicDuration = calc.out.dynamicDuration
      /\ C22_At(t).isPast = calc.out.isPast

\* C23: every valid result asks for a delay of at least 1000 ms, and every
\* valid result for a future target with diffSeconds >= 1 asks for at most
\* diffSeconds * 1000 ms, so the next computation is not after the target.
C23_DelayBounds ==
  CalcTextDone =>
    /\ calc.kind = "s" =>
         /\ calc.out.next >= 1
         /\ (~calc.out.isPast /\ calc.out.diff >= 1)
              => calc.out.next <= calc.out.diff
    /\ calc.kind = "ms" =>
         /\ calc.out.timeout >= 1000
         /\ (~calc.out.isPast /\ calc.out.diff >= 1)
              => /\ calc.out.timeout <= calc.out.diff * 1000
                 /\ calc.now + calc.out.timeout <= calc.when.v

\* A target one second and a fraction ahead has been computed: the delay
\* is the whole of diffSeconds.
C23_Witness ==
  /\ CalcTextDone
  /\ calc.kind = "ms"
  /\ ~calc.out.isPast
  /\ calc.out.diff = 1
  /\ calc.when.v - calc.now = 1999
  /\ calc.out.timeout = 1000

\* C24: once a connected controller has shown the session as expired, its
\* timer chain comes to an end: it reaches a state with no timer pending
\* and 28800 or more seconds since expiry on display, and from such a state
\* no timer is set and the display does not change.
C24_ChainTerminates ==
  /\ (connected /\ isPast)
       ~> (timers = {} /\ isPast /\ diff >= 28800)
  /\ [][ (timers = {} /\ isPast /\ diff >= 28800)
         => /\ timers' = {}
            /\ UNCHANGED << isPast, diff, _msgSpan, _valueSpan >> ]_vars

\* The last tick of a chain has run: 8 hours past expiry, nothing pending.
C24_Witness ==
  /\ connected
  /\ op.name = "tick"
  /\ isPast
  /\ diff >= 28800
  /\ timers = {}

\* C25: whenever a tick has put the expired label on display, a
\* sessionexpired event has been dispatched since the end time was last
\* changed (by a reset, or by the connect that started the session).
C25_ResetRearmsExpiry ==
  (op.name = "tick" /\ err = "none" /\ isPast) => expiredCount >= 1

\* C26: a keepalive signal (handler call or default event) is produced only
\* by a user interaction; connecting and disconnecting produce none and
\* leave _lastInteraction and _lastKeep as they were.
C26_KeepaliveOnlyOnInteraction ==
  [][ /\ KeepaliveSignals' > 0 => op'.name = "interaction"
      /\ op'.name \in {"connect", "disconnect"}
         => UNCHANGED << _lastInteraction, _lastKeep >> ]_vars

====
